---- MODULE Spec2Model ----
(***************************************************************************)
(* Model of pkg/virt-handler/selinux/context_executor.go: running a child  *)
(* command under the SELinux label of another process.                     *)
(*                                                                         *)
(* Each executor is driven by one goroutine.  A goroutine that has not     *)
(* called runtime.LockOSThread may run each of its steps on any OS thread  *)
(* that is not wired to another goroutine; a goroutine that has, runs on   *)
(* that thread only.  The exec label is an attribute of the OS thread.     *)
(***************************************************************************)
EXTENDS Integers, FiniteSets, Sequences, TLC

(* ---- bounds ---- *)
NumExec == 2            \* executors (one goroutine each)
MaxPid == 3             \* process ids 1..MaxPid
MaxFD == 257            \* descriptor numbers 0..MaxFD

(* ---- program constants ---- *)
minFDToCloseOnExec == 3
maxFDToCloseOnExec == 256

Goroutines == 1..NumExec
\* the runtime always has an OS thread for a runnable goroutine: one per
\* goroutine is as many as can be wired at once
Threads == 1..NumExec
Pids == 1..MaxPid
FDs == 0..MaxFD
SelfPid == 1            \* os.Getpid()
NoThread == 0
NoProc == "<no such process>"
NoLabel == ""

VARIABLES
    pc,            \* position of each goroutine
    ce,            \* the ContextExecutor each goroutine holds
    ctorErr,       \* error returned by NewContextExecutor
    selinuxOn,     \* what isSELinuxEnabled() answered in this Execute call
    lockedThread,  \* OS thread the goroutine is wired to (NoThread: none)
    execLabel,     \* exec label of each OS thread
    procLabel,     \* /proc/<pid>/attr/current of each process
    openFDs,       \* descriptors open in the calling process
    cloexec,       \* descriptors carrying FD_CLOEXEC
    cmd,           \* state of cmdToExecute
    childLabel,    \* exec label of the thread that started the child
    ret,           \* value of Execute's return statement
    setErr,        \* value setDesiredContext returned
    resetErr,      \* value resetContext returned (to the defer machinery)
    resolved,      \* how the two label resolutions of NewContextExecutor went
    deferred,      \* whether "defer ce.resetContext()" has been executed
    probe,         \* what NewSELinux() handed to isSELinuxEnabled
    childFDs,      \* descriptors the started child inherited
    atStart,       \* the threads' exec labels and the close-on-exec flags
                   \* before any executor ran (never changes)
    stale,         \* whether the label a set/restore call wrote differed
                   \* from the process's label at the time of the call
    calls          \* how often each goroutine issued each call

vars == <<pc, ce, ctorErr, selinuxOn, lockedThread, execLabel, procLabel,
          openFDs, cloexec, cmd, childLabel, ret, setErr, resetErr, resolved,
          deferred, probe, childFDs, atStart, stale, calls>>

(* ---- values ---- *)
Nil == [kind |-> "nil", pid |-> 0, label |-> NoLabel]
NoRet == [kind |-> "none", pid |-> 0, label |-> NoLabel]
\* fmt.Errorf("could not retrieve pid %d selinux label: %v", pid, err)
LabelUnavailable(pid) == [kind |-> "LabelUnavailable", pid |-> pid, label |-> NoLabel]
\* fmt.Errorf("failed to switch selinux context to %s. Reason: %v", desiredLabel, err)
ContextSwitchError(label) == [kind |-> "ContextSwitchError", pid |-> 0, label |-> label]
\* fmt.Errorf("failed to execute command in launcher namespace %d: %v", ce.pid, err)
ChildExecutionError(pid) == [kind |-> "ChildExecutionError", pid |-> pid, label |-> NoLabel]
\* the error selinux.SetExecLabel(ce.originalLabel) returns
ContextRestoreError(label) == [kind |-> "ContextRestoreError", pid |-> 0, label |-> label]

NoExecutor == [pid |-> 0, desiredLabel |-> NoLabel, originalLabel |-> NoLabel]
NoStale == [set |-> FALSE, reset |-> FALSE]
NoCalls == [resolve |-> 0, probe |-> 0, lock |-> 0, set |-> 0, hygiene |-> 0,
            start |-> 0, reset |-> 0, unlock |-> 0]

Bump(g, what) == [calls EXCEPT ![g][what] = @ + 1]

(* ---- the label resolver ---- *)
\* selinux.FileLabel on /proc/<pid>/attr/current; readable says whether the
\* read itself went through (permission, I/O)
getLabelForPID(pid, readable) ==
    IF readable /\ procLabel[pid] # NoProc
    THEN [label |-> procLabel[pid], err |-> Nil]
    ELSE [label |-> NoLabel, err |-> LabelUnavailable(pid)]

(* ---- descriptor hygiene ---- *)
\* syscall.CloseOnExec(fd): fcntl(fd, F_SETFD, FD_CLOEXEC), result ignored;
\* EBADF on a descriptor that is not open
CloseOnExec(fd, cx) == IF fd \in openFDs THEN cx \cup {fd} ELSE cx

\* variant: the loop starts one descriptor too low
CloseOnExecRange_FromStderr ==
    (minFDToCloseOnExec - 1) .. (maxFDToCloseOnExec - 1)

\* variant: the loop runs one descriptor too far ("fd <= max")
CloseOnExecRange_Through == minFDToCloseOnExec .. maxFDToCloseOnExec

\* the descriptor numbers the loop "for fd := min; fd < max; fd++" visits
CloseOnExecRange == minFDToCloseOnExec .. (maxFDToCloseOnExec - 1)

\* the loop body only ever adds flags, so the visits commute
preventFDLeakOntoChild(cx) ==
    cx \cup UNION {CloseOnExec(fd, cx) : fd \in CloseOnExecRange}

(* ---- scheduling of goroutines onto OS threads ---- *)
\* the threads goroutine g may be running on when it takes a step
CurThreads(g) ==
    IF lockedThread[g] # NoThread
    THEN {lockedThread[g]}
    ELSE {t \in Threads : \A h \in Goroutines : lockedThread[h] # t}

(* ---- initial state ---- *)
\* descriptors of the calling process: the standard streams, two inside the
\* hygiene range, two above it (the last already close-on-exec)
InitialOpenFDs == {0, 1, 2, 5, 255, 256, MaxFD}
InitialCloexec == {MaxFD}

Init ==
    /\ pc = [g \in Goroutines |-> "new"]
    /\ ce = [g \in Goroutines |-> NoExecutor]
    /\ ctorErr = [g \in Goroutines |-> Nil]
    /\ selinuxOn = [g \in Goroutines |-> FALSE]
    /\ lockedThread = [g \in Goroutines |-> NoThread]
    /\ execLabel = [t \in Threads |-> NoLabel]
    /\ procLabel = [p \in Pids |-> IF p = SelfPid THEN "ctx_a"
                                   ELSE IF p = 2 THEN "ctx_b" ELSE NoProc]
    /\ openFDs = InitialOpenFDs
    /\ cloexec = InitialCloexec
    /\ cmd = [g \in Goroutines |-> "unstarted"]
    /\ childLabel = [g \in Goroutines |-> NoLabel]
    /\ ret = [g \in Goroutines |-> NoRet]
    /\ setErr = [g \in Goroutines |-> NoRet]
    /\ resetErr = [g \in Goroutines |-> NoRet]
    /\ resolved = [g \in Goroutines |-> [target |-> "unasked", self |-> "unasked"]]
    /\ deferred = [g \in Goroutines |-> FALSE]
    /\ probe = [g \in Goroutines |-> "unasked"]
    /\ childFDs = [g \in Goroutines |-> {}]
    /\ atStart = [execLabel |-> execLabel, cloexec |-> cloexec]
    /\ stale = [g \in Goroutines |-> NoStale]
    /\ calls = [g \in Goroutines |-> NoCalls]

\* Descriptor tables for the hygiene properties: stdout and stderr open, any
\* choice of stdin and of descriptors at and around the edges of the hygiene
\* range, some of them already close-on-exec.  Only the first goroutine gets
\* to build an executor; for the others NewContextExecutor has already
\* failed on a target pid without a process.
EdgeFDs == {0, 3, 4, 255, 256, MaxFD}
NoTargetPid == MaxPid

InitFD ==
    /\ pc = [g \in Goroutines |-> IF g = 1 THEN "new" ELSE "failed"]
    /\ ce = [g \in Goroutines |-> NoExecutor]
    /\ ctorErr = [g \in Goroutines |->
                    IF g = 1 THEN Nil ELSE LabelUnavailable(NoTargetPid)]
    /\ selinuxOn = [g \in Goroutines |-> FALSE]
    /\ lockedThread = [g \in Goroutines |-> NoThread]
    /\ execLabel = [t \in Threads |-> NoLabel]
    /\ procLabel = [p \in Pids |-> IF p = SelfPid THEN "ctx_a"
                                   ELSE IF p = 2 THEN "ctx_b" ELSE NoProc]
    /\ \E S \in SUBSET EdgeFDs : openFDs = {1, 2} \cup S
    /\ \E C \in SUBSET {0, 4, 256} : cloexec = C \cap openFDs
    /\ cmd = [g \in Goroutines |-> "unstarted"]
    /\ childLabel = [g \in Goroutines |-> NoLabel]
    /\ ret = [g \in Goroutines |-> NoRet]
    /\ setErr = [g \in Goroutines |-> NoRet]
    /\ resetErr = [g \in Goroutines |-> NoRet]
    /\ resolved = [g \in Goroutines |->
                     IF g = 1 THEN [target |-> "unasked", self |-> "unasked"]
                     ELSE [target |-> "failed", self |-> "unasked"]]
    /\ deferred = [g \in Goroutines |-> FALSE]
    /\ probe = [g \in Goroutines |-> "unasked"]
    /\ childFDs = [g \in Goroutines |-> {}]
    /\ atStart = [execLabel |-> execLabel, cloexec |-> cloexec]
    /\ stale = [g \in Goroutines |-> NoStale]
    /\ calls = [g \in Goroutines |->
                  IF g = 1 THEN NoCalls ELSE [NoCalls EXCEPT !.resolve = 1]]

\* Labels a process may carry, and the states for the properties about
\* labels that move: one goroutine builds and runs an executor (for the
\* others NewContextExecutor has already failed), on threads that earlier
\* work may have left with any exec label, while processes get relabelled.
Labels == {"ctx_a", "ctx_b"}

InitSolo ==
    /\ pc = [g \in Goroutines |-> IF g = 1 THEN "new" ELSE "failed"]
    /\ ce = [g \in Goroutines |-> NoExecutor]
    /\ ctorErr = [g \in Goroutines |->
                    IF g = 1 THEN Nil ELSE LabelUnavailable(NoTargetPid)]
    /\ selinuxOn = [g \in Goroutines |-> FALSE]
    /\ lockedThread = [g \in Goroutines |-> NoThread]
    /\ execLabel \in [Threads -> {NoLabel} \cup Labels]
    /\ procLabel = [p \in Pids |-> IF p = SelfPid THEN "ctx_a"
                                   ELSE IF p = 2 THEN "ctx_b" ELSE NoProc]
    /\ openFDs = InitialOpenFDs
    /\ cloexec = InitialCloexec
    /\ cmd = [g \in Goroutines |-> "unstarted"]
    /\ childLabel = [g \in Goroutines |-> NoLabel]
    /\ ret = [g \in Goroutines |-> NoRet]
    /\ setErr = [g \in Goroutines |-> NoRet]
    /\ resetErr = [g \in Goroutines |-> NoRet]
    /\ resolved = [g \in Goroutines |->
                     IF g = 1 THEN [target |-> "unasked", self |-> "unasked"]
                     ELSE [target |-> "failed", self |-> "unasked"]]
    /\ deferred = [g \in Goroutines |-> FALSE]
    /\ probe = [g \in Goroutines |-> "unasked"]
    /\ childFDs = [g \in Goroutines |-> {}]
    /\ atStart = [execLabel |-> execLabel, cloexec |-> cloexec]
    /\ stale = [g \in Goroutines |-> NoStale]
    /\ calls = [g \in Goroutines |->
                  IF g = 1 THEN NoCalls ELSE [NoCalls EXCEPT !.resolve = 1]]

(* ---- NewContextExecutor ---- *)
\* variant: the error of the second resolution is not looked at
NewContextExecutorResult_Partial(pid, readTarget, readSelf) ==
    LET d == getLabelForPID(pid, readTarget)
        o == getLabelForPID(SelfPid, readSelf)
    IN  IF d.err # Nil THEN [ce |-> NoExecutor, err |-> d.err, resolves |-> 1]
        ELSE [ce |-> [pid |-> pid, desiredLabel |-> d.label,
                      originalLabel |-> o.label],
              err |-> Nil, resolves |-> 2]

\* variant: both labels are resolved before either error is looked at
NewContextExecutorResult_Eager(pid, readTarget, readSelf) ==
    LET d == getLabelForPID(pid, readTarget)
        o == getLabelForPID(SelfPid, readSelf)
    IN  IF d.err # Nil THEN [ce |-> NoExecutor, err |-> d.err, resolves |-> 2]
        ELSE IF o.err # Nil THEN [ce |-> NoExecutor, err |-> o.err, resolves |-> 2]
        ELSE [ce |-> [pid |-> pid, desiredLabel |-> d.label,
                      originalLabel |-> o.label],
              err |-> Nil, resolves |-> 2]

\* the pair NewContextExecutor returns, and the resolver calls it made
NewContextExecutorResult(pid, readTarget, readSelf) ==
    LET d == getLabelForPID(pid, readTarget)
        o == getLabelForPID(SelfPid, readSelf)
    IN  IF d.err # Nil THEN [ce |-> NoExecutor, err |-> d.err, resolves |-> 1]
        ELSE IF o.err # Nil THEN [ce |-> NoExecutor, err |-> o.err, resolves |-> 2]
        ELSE [ce |-> [pid |-> pid, desiredLabel |-> d.label,
                      originalLabel |-> o.label],
              err |-> Nil, resolves |-> 2]

Outcome(err) == IF err = Nil THEN "ok" ELSE "failed"

NewContextExecutor(g) ==
    /\ pc[g] = "new"
    /\ \E pid \in Pids, readTarget \in BOOLEAN, readSelf \in BOOLEAN :
         LET r == NewContextExecutorResult(pid, readTarget, readSelf)
         IN  /\ ce' = [ce EXCEPT ![g] = r.ce]
             /\ ctorErr' = [ctorErr EXCEPT ![g] = r.err]
             /\ resolved' = [resolved EXCEPT ![g] =
                    [target |-> Outcome(getLabelForPID(pid, readTarget).err),
                     self |-> IF r.resolves < 2 THEN "unasked"
                              ELSE Outcome(getLabelForPID(SelfPid, readSelf).err)]]
             /\ calls' = [calls EXCEPT ![g].resolve = @ + r.resolves]
             /\ pc' = [pc EXCEPT ![g] = IF r.err = Nil THEN "constructed"
                                        ELSE "failed"]
    /\ UNCHANGED <<selinuxOn, lockedThread, execLabel, procLabel, openFDs,
                   cloexec, cmd, childLabel, ret, setErr, resetErr, deferred,
                   probe, childFDs,
                   atStart, stale>>

(* ---- the availability probe ---- *)
\* what NewSELinux() can hand back: (_, enabled, err)
ProbeOutcomes == {"enabled", "disabled", "initError"}

\* variant: "err != nil || selinuxEnabled"
isSELinuxEnabled_ErrIgnored(outcome) ==
    LET err == (outcome = "initError")
        selinuxEnabled == (outcome = "enabled")
    IN  err \/ selinuxEnabled

isSELinuxEnabled(outcome) ==
    LET err == (outcome = "initError")
        selinuxEnabled == (outcome = "enabled")
    IN  ~err /\ selinuxEnabled

(* ---- Execute ---- *)
\* variant: the probe's answer is not looked at
ExecuteEntry_Always(enabled) == "lock"

\* where Execute goes after the probe
ExecuteEntry(enabled) == IF enabled THEN "lock" ELSE "hygiene"

\* Execute is entered and queries the probe
ExecuteProbe(g) ==
    /\ pc[g] = "constructed"
    /\ \E outcome \in ProbeOutcomes :
         /\ probe' = [probe EXCEPT ![g] = outcome]
         /\ selinuxOn' = [selinuxOn EXCEPT ![g] = isSELinuxEnabled(outcome)]
         /\ pc' = [pc EXCEPT ![g] = ExecuteEntry(isSELinuxEnabled(outcome))]
    /\ calls' = Bump(g, "probe")
    /\ UNCHANGED <<ce, ctorErr, lockedThread, execLabel, procLabel, openFDs,
                   cloexec, cmd, childLabel, ret, setErr, resetErr, resolved,
                   deferred, childFDs,
                   stale, atStart>>

\* runtime.LockOSThread() in setDesiredContext
LockOSThread(g) ==
    /\ pc[g] = "lock"
    /\ \E t \in CurThreads(g) :
         lockedThread' = [lockedThread EXCEPT ![g] = t]
    /\ pc' = [pc EXCEPT ![g] = "set"]
    /\ calls' = Bump(g, "lock")
    /\ UNCHANGED <<ce, ctorErr, selinuxOn, execLabel, procLabel, openFDs,
                   cloexec, cmd, childLabel, ret, setErr, resetErr, resolved,
                   deferred, probe, childFDs,
                   stale, atStart>>

\* variant: the label is an attribute of the process, not of the thread
SetExecLabel_ProcessWide(t, label, ok) ==
    IF ok THEN [u \in Threads |-> label] ELSE execLabel

\* selinux.SetExecLabel issued on thread t: a write to
\* /proc/self/task/<tid>/attr/exec that either goes through or changes nothing
SetExecLabel(t, label, ok) ==
    IF ok THEN [execLabel EXCEPT ![t] = label] ELSE execLabel

\* variant: the target's label is read again when the switch is made
DesiredLabelOf_Fresh(e) == procLabel[e.pid]

\* the label setDesiredContext writes: the field captured at construction
DesiredLabelOf(e) == e.desiredLabel

\* variant: resetContext writes the label it was meant to leave
RestoreLabelOf_Desired(e) == e.desiredLabel

\* variant: resetContext clears the exec label
RestoreLabelOf_Empty(e) == NoLabel

\* the label resetContext writes: the field captured at construction
RestoreLabelOf(e) == e.originalLabel

\* variant: the result of setDesiredContext is not looked at
AfterSetDesiredContext_Ignored(failed) == [pc |-> "hygiene", deferred |-> FALSE]

\* variant: hygiene sits on the branch without a label switch
AfterSetDesiredContext_SkipHygiene(failed) ==
    IF failed THEN [pc |-> "done", deferred |-> FALSE]
    ELSE [pc |-> "run", deferred |-> TRUE]

\* variant: a failed label-set call is tried again
AfterSetDesiredContext_Retry(failed) ==
    IF failed THEN [pc |-> "set", deferred |-> FALSE]
    ELSE [pc |-> "hygiene", deferred |-> TRUE]

\* what Execute does with setDesiredContext's result
AfterSetDesiredContext(failed) ==
    IF failed THEN [pc |-> "done", deferred |-> FALSE]
    ELSE [pc |-> "hygiene", deferred |-> TRUE]

\* selinux.SetExecLabel(ce.desiredLabel) in setDesiredContext, and
\* Execute's "return err" / "defer ce.resetContext()"
SetDesiredContext(g) ==
    /\ pc[g] = "set"
    /\ \E t \in CurThreads(g), ok \in BOOLEAN :
         LET next == AfterSetDesiredContext(~ok)
         IN  /\ execLabel' = SetExecLabel(t, DesiredLabelOf(ce[g]), ok)
             /\ stale' = [stale EXCEPT ![g].set =
                            procLabel[ce[g].pid] # DesiredLabelOf(ce[g])]
             /\ setErr' = [setErr EXCEPT ![g] =
                             IF ok THEN Nil
                             ELSE ContextSwitchError(ce[g].desiredLabel)]
             /\ ret' = [ret EXCEPT ![g] =
                          IF next.pc = "done" THEN setErr'[g] ELSE @]
             /\ deferred' = [deferred EXCEPT ![g] = next.deferred]
             /\ pc' = [pc EXCEPT ![g] = next.pc]
    /\ calls' = Bump(g, "set")
    /\ UNCHANGED <<ce, ctorErr, selinuxOn, lockedThread, procLabel, openFDs,
                   cloexec, cmd, childLabel, resetErr, resolved, probe,
                   childFDs,
                   atStart>>

\* preventFDLeakOntoChild() in Execute
PreventFDLeak(g) ==
    /\ pc[g] = "hygiene"
    /\ cloexec' = preventFDLeakOntoChild(cloexec)
    /\ pc' = [pc EXCEPT ![g] = "run"]
    /\ calls' = Bump(g, "hygiene")
    /\ UNCHANGED <<ce, ctorErr, selinuxOn, lockedThread, execLabel, procLabel,
                   openFDs, cmd, childLabel, ret, setErr, resetErr, resolved,
                   deferred, probe, childFDs,
                   atStart, stale>>

\* the value of Execute's return statement after cmdToExecute.Run()
ExecuteReturn(runFailed, pid) ==
    IF runFailed THEN ChildExecutionError(pid) ELSE Nil

\* variant: the restoration is not deferred, the return statement leaves
AfterReturn_NoDefer(isDeferred) == "done"

\* what runs after Execute's return statement: the deferred call, if any
AfterReturn(isDeferred) == IF isDeferred THEN "reset" ELSE "done"

\* cmdToExecute.Run(), first half: fork and exec on the current thread
CmdStart(g) ==
    /\ pc[g] = "run"
    /\ \E t \in CurThreads(g), ok \in BOOLEAN :
         IF ok
         THEN /\ cmd' = [cmd EXCEPT ![g] = "running"]
              /\ childLabel' = [childLabel EXCEPT ![g] = execLabel[t]]
              /\ childFDs' = [childFDs EXCEPT ![g] = openFDs \ cloexec]
              /\ pc' = [pc EXCEPT ![g] = "wait"]
              /\ ret' = ret
         ELSE /\ cmd' = [cmd EXCEPT ![g] = "startFailed"]
              /\ ret' = [ret EXCEPT ![g] = ExecuteReturn(TRUE, ce[g].pid)]
              /\ pc' = [pc EXCEPT ![g] = AfterReturn(deferred[g])]
              /\ UNCHANGED <<childLabel, childFDs>>
    /\ calls' = Bump(g, "start")
    /\ UNCHANGED <<ce, ctorErr, selinuxOn, lockedThread, execLabel, procLabel,
                   openFDs, cloexec, setErr, resetErr, resolved, deferred,
                   probe,
                   atStart, stale>>

\* cmdToExecute.Run(), second half: wait for the child to exit
CmdWait(g) ==
    /\ pc[g] = "wait"
    /\ \E exitOk \in BOOLEAN :
         /\ cmd' = [cmd EXCEPT ![g] = IF exitOk THEN "exited0" ELSE "exitedNonZero"]
         /\ ret' = [ret EXCEPT ![g] = ExecuteReturn(~exitOk, ce[g].pid)]
    /\ pc' = [pc EXCEPT ![g] = AfterReturn(deferred[g])]
    /\ UNCHANGED <<ce, ctorErr, selinuxOn, lockedThread, execLabel, procLabel,
                   openFDs, cloexec, childLabel, setErr, resetErr, resolved,
                   deferred, probe, childFDs, calls,
                   atStart, stale>>

\* selinux.SetExecLabel(ce.originalLabel) in resetContext
ResetContext(g) ==
    /\ pc[g] = "reset"
    /\ \E t \in CurThreads(g), ok \in BOOLEAN :
         /\ execLabel' = SetExecLabel(t, RestoreLabelOf(ce[g]), ok)
         /\ stale' = [stale EXCEPT ![g].reset =
                        procLabel[SelfPid] # RestoreLabelOf(ce[g])]
         /\ resetErr' = [resetErr EXCEPT ![g] =
                           IF ok THEN Nil
                           ELSE ContextRestoreError(ce[g].originalLabel)]
    /\ pc' = [pc EXCEPT ![g] = "unlock"]
    /\ calls' = Bump(g, "reset")
    /\ UNCHANGED <<ce, ctorErr, selinuxOn, lockedThread, procLabel, openFDs,
                   cloexec, cmd, childLabel, ret, setErr, resolved, deferred,
                   probe, childFDs,
                   atStart>>

\* variant: an error of the deferred call replaces the returned value
DeferredResult_Override(returned, fromReset) ==
    IF fromReset # Nil THEN fromReset ELSE returned

\* what Execute hands its caller once the deferred "ce.resetContext()" has
\* run: a deferred call's result is dropped
DeferredResult(returned, fromReset) == returned

\* variant: the thread is released only when the label was restored
ThreadAfterReset_OnSuccess(t, fromReset) ==
    IF fromReset = Nil THEN NoThread ELSE t

\* the thread the goroutine is wired to once resetContext is left: its
\* "defer runtime.UnlockOSThread()" runs whatever SetExecLabel returned
ThreadAfterReset(t, fromReset) == NoThread

\* "defer runtime.UnlockOSThread()" in resetContext; Execute then returns
UnlockOSThread(g) ==
    /\ pc[g] = "unlock"
    /\ lockedThread' = [lockedThread EXCEPT ![g] =
                           ThreadAfterReset(@, resetErr[g])]
    /\ ret' = [ret EXCEPT ![g] = DeferredResult(ret[g], resetErr[g])]
    /\ pc' = [pc EXCEPT ![g] = "done"]
    /\ calls' = Bump(g, "unlock")
    /\ UNCHANGED <<ce, ctorErr, selinuxOn, execLabel, procLabel, openFDs,
                   cloexec, cmd, childLabel, setErr, resetErr, resolved,
                   deferred, probe, childFDs,
                   atStart, stale>>

Next ==
    \E g \in Goroutines :
        \/ NewContextExecutor(g)
        \/ ExecuteProbe(g)
        \/ LockOSThread(g)
        \/ SetDesiredContext(g)
        \/ PreventFDLeak(g)
        \/ CmdStart(g)
        \/ CmdWait(g)
        \/ ResetContext(g)
        \/ UnlockOSThread(g)

\* the domain of a process changes (a transition of the process itself, or
\* a relabel by its manager); /proc/<pid>/attr/current then reads differently
Relabel ==
    /\ \E p \in Pids, l \in Labels :
         /\ procLabel[p] # NoProc
         /\ l # procLabel[p]
         /\ procLabel' = [procLabel EXCEPT ![p] = l]
    /\ UNCHANGED <<pc, ce, ctorErr, selinuxOn, lockedThread, execLabel,
                   openFDs, cloexec, cmd, childLabel, ret, setErr, resetErr,
                   resolved, deferred, probe, childFDs, atStart, stale, calls>>

NextSolo == Next \/ Relabel

Spec == Init /\ [][Next]_vars

\* one executor, any exec labels on the threads, processes being relabelled
SpecSolo == InitSolo /\ [][NextSolo]_vars

\* the same program started on each of the descriptor tables of InitFD
SpecFD == InitFD /\ [][Next]_vars

(***************************************************************************)
(* Properties                                                              *)
(***************************************************************************)
Returned(g) == pc[g] = "done"
SwitchSucceeded(g) == selinuxOn[g] /\ setErr[g] = Nil
SwitchFailed(g) == selinuxOn[g] /\ setErr[g].kind = "ContextSwitchError"
ChildFailed(g) == cmd[g] \in {"startFailed", "exitedNonZero"}
RestoreFailed(g) == resetErr[g].kind = "ContextRestoreError"

\* C1: when MAC is enabled and the label-set call succeeded, exactly one
\* restoration attempt has been made by the time Execute returns, whether the
\* child succeeded or failed (and never more than one at any time).
C1_RestoredExactlyOnce ==
    \A g \in Goroutines :
        /\ calls[g].reset <= 1
        /\ (Returned(g) /\ SwitchSucceeded(g)) => calls[g].reset = 1

\* an Execute that switched, whose child exited with failure, has returned
\* after one restoration attempt
C1_Witness ==
    \E g \in Goroutines :
        /\ Returned(g) /\ SwitchSucceeded(g)
        /\ cmd[g] = "exitedNonZero"
        /\ calls[g].reset = 1

\* C2: when MAC is enabled and the label-set call fails, Execute has returned
\* the context-switch error, the child was never started and no restoration
\* call was made.
C2_FailFastOnSwitchFailure ==
    \A g \in Goroutines :
        SwitchFailed(g) =>
            /\ Returned(g)
            /\ ret[g] = ContextSwitchError(ce[g].desiredLabel)
            /\ cmd[g] = "unstarted" /\ calls[g].start = 0
            /\ calls[g].reset = 0

C2_Witness ==
    \E g \in Goroutines :
        /\ SwitchFailed(g) /\ Returned(g)
        /\ calls[g].set = 1 /\ ret[g].kind = "ContextSwitchError"

\* C3: when the probe reports MAC disabled, Execute makes no label-set call,
\* no label-restore call and takes no thread binding, and by the time it
\* returns it has applied descriptor hygiene and run the child (which
\* inherited no descriptor of the hygiene range).
C3_NoOpOnDisabledMAC ==
    \A g \in Goroutines :
        (probe[g] # "unasked" /\ ~selinuxOn[g]) =>
            /\ calls[g].set = 0 /\ calls[g].reset = 0
            /\ calls[g].lock = 0 /\ lockedThread[g] = NoThread
            /\ Returned(g) =>
                  /\ calls[g].hygiene = 1
                  /\ calls[g].start = 1 /\ cmd[g] # "unstarted"
                  /\ childFDs[g] \cap (3..255) = {}

C3_Witness ==
    \E g \in Goroutines :
        /\ probe[g] = "disabled" /\ Returned(g)
        /\ cmd[g] = "exited0" /\ ret[g] = Nil
        /\ childFDs[g] = {0, 1, 2, 256}

\* C4: when the label switch succeeded and the child ran successfully but
\* restoring the original label failed, Execute returns the restoration
\* failure as its error.
C4_RestoreFailureReturned ==
    \A g \in Goroutines :
        (Returned(g) /\ SwitchSucceeded(g) /\ cmd[g] = "exited0"
            /\ RestoreFailed(g))
        => ret[g] = resetErr[g]

\* C5: whenever the child fails to start or exits with failure, Execute
\* returns a child-execution error tagged with the executor's target pid,
\* whether the restoration succeeded or failed.
C5_ChildErrorSurfaced ==
    \A g \in Goroutines :
        (Returned(g) /\ ChildFailed(g)) => ret[g] = ChildExecutionError(ce[g].pid)

\* the child failed and so did the restoration
C5_Witness ==
    \E g \in Goroutines :
        /\ Returned(g) /\ ChildFailed(g) /\ RestoreFailed(g)
        /\ ret[g].kind = "ChildExecutionError" /\ ret[g].pid = 2

IssuedSet(g) == calls'[g].set > calls[g].set
IssuedReset(g) == calls'[g].reset > calls[g].reset

\* what one step of goroutine g must satisfy for C6
C6_ConstructionStep(g) ==
    /\ execLabel' = execLabel
    /\ calls'[g].set = 0 /\ calls'[g].lock = 0
    /\ ("failed" \in {resolved'[g].target, resolved'[g].self}) =>
          /\ ce'[g] = NoExecutor
          /\ ctorErr'[g].kind = "LabelUnavailable"
          /\ pc'[g] = "failed"
    /\ (ce'[g] # NoExecutor \/ ctorErr'[g] = Nil \/ pc'[g] = "constructed") =>
          /\ resolved'[g] = [target |-> "ok", self |-> "ok"]
          /\ ctorErr'[g] = Nil /\ pc'[g] = "constructed"
          /\ ce'[g].desiredLabel = procLabel[ce'[g].pid]
          /\ ce'[g].originalLabel = procLabel[SelfPid]
          /\ NoProc \notin {ce'[g].desiredLabel, ce'[g].originalLabel}

\* C6: NewContextExecutor is all-or-nothing.  If the resolution of the target
\* pid or of the calling process fails, it returns an error and no executor;
\* an executor is returned only when both labels were captured; and the call
\* changes no thread's exec label and issues no label-set call.
C6_ConstructionAtomic ==
    [][\A g \in Goroutines :
          (pc[g] = "new" /\ pc'[g] # "new") => C6_ConstructionStep(g)]_vars

\* a construction whose second resolution (the caller's own label) failed
C6_Witness ==
    \E g \in Goroutines :
        /\ pc[g] = "failed"
        /\ resolved[g] = [target |-> "ok", self |-> "failed"]
        /\ ce[g] = NoExecutor

\* what one step of goroutine g must satisfy for C7
C7_HygieneStep(g) ==
    /\ \A fd \in 0..2 : (fd \in cloexec') <=> (fd \in cloexec)
    /\ \A fd \in 3..255 : fd \in openFDs => fd \in cloexec'
    /\ \A fd \in FDs \ (3..255) : (fd \in cloexec') <=> (fd \in cloexec)
    /\ \A fd \in FDs \ openFDs : fd \notin cloexec'
    /\ openFDs' = openFDs
    /\ pc'[g] = "run"

C8_BindingStep(g) ==
    /\ IssuedSet(g) => lockedThread[g] # NoThread
    /\ (SwitchSucceeded(g) /\ lockedThread[g] # NoThread
            /\ lockedThread'[g] # lockedThread[g])
          => (calls[g].reset = 1 /\ lockedThread'[g] = NoThread)
    /\ (SwitchSucceeded(g)' /\ Returned(g)') =>
          (lockedThread'[g] = NoThread /\ calls'[g].reset = 1)

\* C8: in every Execute call where the label switch succeeded, the thread
\* binding is held when the label-set call is issued, it is released only
\* after the label-restore call has been attempted, and it has been released
\* when Execute returns: after child success, child failure and restore
\* failure alike.
C8_BindingCoversSwitch ==
    [][\A g \in Goroutines : C8_BindingStep(g)]_vars

\* one Execute returned after child success and a failed restore, another
\* after a child failure; both released their threads
C8_Witness ==
    \E g, h \in Goroutines :
        /\ g # h
        /\ Returned(g) /\ SwitchSucceeded(g) /\ cmd[g] = "exited0"
        /\ RestoreFailed(g) /\ lockedThread[g] = NoThread
        /\ Returned(h) /\ SwitchSucceeded(h) /\ ChildFailed(h)
        /\ lockedThread[h] = NoThread

\* what one step of goroutine g must satisfy for C9
C9_Step(g) ==
    /\ (IssuedSet(g) \/ IssuedReset(g)) =>
          \A t \in Threads \ {lockedThread[g]} : execLabel'[t] = execLabel[t]
    /\ (selinuxOn[g] /\ cmd[g] = "unstarted" /\ cmd'[g] = "running") =>
          /\ execLabel[lockedThread[g]] = ce[g].desiredLabel
          /\ childLabel'[g] = ce[g].desiredLabel
    /\ (IssuedReset(g) /\ resetErr'[g] = Nil) =>
          execLabel'[lockedThread[g]] = ce[g].originalLabel

\* C9: executors running concurrently do not interfere.  A label-set or
\* label-restore call changes the label of the issuing goroutine's thread
\* only; no thread's label changes otherwise; a child of an executor that
\* switched starts while its thread carries that executor's desiredLabel;
\* and a successful restore writes that executor's originalLabel.
C9_ThreadLocalLabels ==
    [][/\ \A g \in Goroutines : C9_Step(g)
       /\ \A t \in Threads :
            execLabel'[t] # execLabel[t] =>
                \E g \in Goroutines :
                    lockedThread[g] = t /\ (IssuedSet(g) \/ IssuedReset(g))]_vars

\* two children running at once on two threads under two different labels
C9_Witness ==
    \E g, h \in Goroutines :
        /\ cmd[g] = "running" /\ cmd[h] = "running"
        /\ selinuxOn[g] /\ selinuxOn[h]
        /\ lockedThread[g] # lockedThread[h]
        /\ childLabel[g] = "ctx_a" /\ childLabel[h] = "ctx_b"
        /\ execLabel[lockedThread[g]] = "ctx_a"
        /\ execLabel[lockedThread[h]] = "ctx_b"

\* C10: every Execute call that acquires the thread binding has released it
\* when it returns, also on the early return taken when the label-set call
\* fails.
C10_BindingReleasedOnReturn ==
    \A g \in Goroutines :
        (Returned(g) /\ calls[g].lock > 0) => lockedThread[g] = NoThread

IssuedStart(g) == calls'[g].start > calls[g].start
IssuedHygiene(g) == calls'[g].hygiene > calls[g].hygiene
RunCompleted(g) == cmd[g] \in {"exited0", "exitedNonZero", "startFailed"}
Released(g) == lockedThread[g] # NoThread /\ lockedThread'[g] = NoThread

\* what one step of goroutine g must satisfy for C11
C11_Step(g) ==
    /\ IssuedSet(g) =>
          /\ calls[g].probe = 1 /\ selinuxOn[g]
          /\ calls[g].hygiene = 0 /\ calls[g].start = 0
    /\ IssuedHygiene(g) =>
          /\ calls[g].probe = 1 /\ calls[g].start = 0 /\ calls[g].reset = 0
          /\ selinuxOn[g] => SwitchSucceeded(g)
    /\ IssuedStart(g) =>
          /\ calls[g].hygiene = 1 /\ calls[g].reset = 0
          /\ selinuxOn[g] =>
                /\ lockedThread[g] # NoThread
                /\ execLabel[lockedThread[g]] = ce[g].desiredLabel
    /\ IssuedReset(g) =>
          /\ selinuxOn[g] /\ calls[g].start = 1 /\ RunCompleted(g)

\* C11: Execute's steps occur in the order probe, label-set (if enabled),
\* descriptor hygiene, child run, label-restore (if enabled).  With MAC
\* enabled the child is started only while the thread is bound and carries
\* desiredLabel; hygiene has completed before the child is started; the
\* restore call is issued only after the child's run has completed.
C11_StepOrder ==
    [][\A g \in Goroutines : C11_Step(g)]_vars

\* the restore call has been issued after a child that ran to a clean exit
C11_Witness ==
    \E g \in Goroutines :
        /\ pc[g] = "unlock" /\ cmd[g] = "exited0"
        /\ calls[g].probe = 1 /\ calls[g].set = 1 /\ calls[g].hygiene = 1
        /\ calls[g].start = 1 /\ calls[g].reset = 1
        /\ childLabel[g] = ce[g].desiredLabel

\* what one step of goroutine g must satisfy for C12
C12_Step(g) ==
    /\ (pc[g] = "new" /\ pc'[g] = "constructed") =>
          /\ ce'[g].desiredLabel = procLabel[ce'[g].pid]
          /\ ce'[g].originalLabel = procLabel[SelfPid]
    /\ pc[g] # "new" =>
          /\ ce'[g] = ce[g]
          /\ calls'[g].resolve = calls[g].resolve
    /\ (IssuedSet(g) /\ setErr'[g] = Nil) =>
          execLabel'[lockedThread[g]] = ce[g].desiredLabel
    /\ (IssuedReset(g) /\ resetErr'[g] = Nil) =>
          execLabel'[lockedThread[g]] = ce[g].originalLabel

\* C12: desiredLabel and originalLabel are fixed at construction and never
\* change afterwards, and Execute resolves no label: when the target's or the
\* caller's label changes between NewContextExecutor and Execute, the
\* label-set call still writes the desiredLabel captured at construction and
\* the restore call the originalLabel captured at construction.
C12_LabelsNeverRefreshed ==
    [][\A g \in Goroutines : C12_Step(g)]_vars

\* both processes were relabelled after construction: the switch and the
\* restore each wrote a label its process no longer carried
C12_Witness ==
    \E g \in Goroutines :
        /\ Returned(g) /\ SwitchSucceeded(g) /\ resetErr[g] = Nil
        /\ stale[g].set /\ stale[g].reset

\* C13: a probe that fails to initialise the MAC subsystem counts as MAC
\* disabled and its error is never returned: Execute makes no label call,
\* takes no binding, runs the child, and returns what the child's outcome
\* alone decides.
C13_ProbeErrorSwallowed ==
    \A g \in Goroutines :
        probe[g] = "initError" =>
            /\ ~selinuxOn[g]
            /\ calls[g].lock = 0 /\ calls[g].set = 0 /\ calls[g].reset = 0
            /\ Returned(g) =>
                  /\ calls[g].start = 1 /\ RunCompleted(g)
                  /\ ret[g] = IF ChildFailed(g)
                              THEN ChildExecutionError(ce[g].pid) ELSE Nil

C13_Witness ==
    \E g \in Goroutines :
        /\ probe[g] = "initError" /\ Returned(g)
        /\ cmd[g] = "exited0" /\ ret[g] = Nil

\* C14: within one Execute call nothing is retried: once Execute is entered
\* the probe has been queried exactly once, and the label-set call, the child
\* start and the label-restore call are each issued at most once.
C14_NoRetry ==
    \A g \in Goroutines :
        /\ calls[g].probe = IF pc[g] \in {"new", "failed", "constructed"}
                            THEN 0 ELSE 1
        /\ calls[g].set <= 1 /\ calls[g].start <= 1 /\ calls[g].reset <= 1

\* an Execute in which the child and the restore both failed, each tried once
C14_Witness ==
    \E g \in Goroutines :
        /\ Returned(g) /\ ChildFailed(g) /\ RestoreFailed(g)
        /\ calls[g].probe = 1 /\ calls[g].set = 1
        /\ calls[g].start = 1 /\ calls[g].reset = 1

\* C15 as stated: every call of NewContextExecutor uses the label resolver
\* exactly twice, once for the target pid and once for the caller's own pid.
C15_ResolverUsedTwice ==
    \A g \in Goroutines :
        pc[g] # "new" =>
            /\ calls[g].resolve = 2
            /\ resolved[g].target # "unasked" /\ resolved[g].self # "unasked"

\* C15 as amended: NewContextExecutor resolves the target pid first; when
\* that fails it returns after this one resolver call, otherwise it resolves
\* the caller's own pid as well, two resolver calls in all.
C15_ResolverUsedOnceOrTwice ==
    \A g \in Goroutines :
        pc[g] # "new" =>
            /\ resolved[g].target # "unasked"
            /\ resolved[g].target = "failed" =>
                  (calls[g].resolve = 1 /\ resolved[g].self = "unasked")
            /\ resolved[g].target = "ok" =>
                  (calls[g].resolve = 2 /\ resolved[g].self # "unasked")

\* an executor was built after two resolutions, another construction ended
\* after one
C15_Witness ==
    \E g, h \in Goroutines :
        /\ pc[g] = "constructed" /\ calls[g].resolve = 2
        /\ pc[h] = "failed" /\ calls[h].resolve = 1

\* C16 as stated: whenever Execute releases the thread binding, the thread's
\* exec label is no longer desiredLabel (taken for executors whose two labels
\* differ: with equal labels the restored label is desiredLabel by itself).
C16_ReleasedWithoutDesiredLabel ==
    [][\A g \in Goroutines :
          (Released(g) /\ ce[g].desiredLabel # ce[g].originalLabel) =>
              execLabel[lockedThread[g]] # ce[g].desiredLabel]_vars

\* C16 as amended: when Execute releases the thread binding after a
\* successful restore call the thread's exec label is originalLabel; after a
\* failed restore call the thread is released still carrying desiredLabel.
C16_ReleasedLabel ==
    [][\A g \in Goroutines :
          Released(g) =>
              /\ resetErr[g] = Nil =>
                    execLabel[lockedThread[g]] = ce[g].originalLabel
              /\ RestoreFailed(g) =>
                    execLabel[lockedThread[g]] = ce[g].desiredLabel]_vars

\* an Execute whose restore failed has returned, and an unbound thread
\* carries its desiredLabel, different from its originalLabel
C16_Witness ==
    \E g \in Goroutines :
        /\ Returned(g) /\ RestoreFailed(g) /\ lockedThread[g] = NoThread
        /\ ce[g].desiredLabel # ce[g].originalLabel
        /\ \E t \in Threads :
             /\ execLabel[t] = ce[g].desiredLabel
             /\ \A h \in Goroutines : lockedThread[h] # t

\* the label switch and the restore call both succeeded and the thread is
\* still bound
Restored(g) ==
    /\ SwitchSucceeded(g) /\ calls[g].reset = 1 /\ resetErr[g] = Nil
    /\ lockedThread[g] # NoThread

\* C17 as stated: after an Execute call in which the label switch and the
\* restore call both succeed, the calling thread's exec label equals the
\* label that thread had before Execute was called, whatever that was.
C17_EntryLabelRestored ==
    \A g \in Goroutines :
        Restored(g) =>
            execLabel[lockedThread[g]] = atStart.execLabel[lockedThread[g]]

\* C17 as amended: after the label switch and the restore call both
\* succeeded, the calling thread's exec label equals the executor's
\* originalLabel, whatever label the thread had before Execute was called.
C17_OriginalLabelRestored ==
    \A g \in Goroutines :
        Restored(g) => execLabel[lockedThread[g]] = ce[g].originalLabel

\* a thread that carried a label of its own on entry now carries another,
\* the executor's originalLabel
C17_Witness ==
    \E g \in Goroutines :
        /\ Restored(g)
        /\ atStart.execLabel[lockedThread[g]] \in Labels
        /\ atStart.execLabel[lockedThread[g]] # execLabel[lockedThread[g]]
        /\ execLabel[lockedThread[g]] = ce[g].originalLabel

\* C18 as stated: once Execute has returned, the close-on-exec flags of the
\* caller's descriptors in [3, 255] are what they were before the call.
C18_FlagsUnchanged ==
    \A g \in Goroutines :
        (Returned(g) /\ calls[g].probe = 1) =>
            cloexec \cap (3..255) = atStart.cloexec \cap (3..255)

\* C18 as amended: once Execute has run descriptor hygiene, and still after
\* it has returned, every descriptor in [3, 255] that is open is
\* close-on-exec; the flags of all other descriptors are what they were
\* before the call.
C18_FlagsStaySet ==
    \A g \in Goroutines :
        calls[g].hygiene = 1 =>
            cloexec = atStart.cloexec \cup (openFDs \cap (3..255))

\* Execute has returned and left flags behind that were not there before
C18_Witness ==
    \E g \in Goroutines :
        /\ Returned(g) /\ calls[g].hygiene = 1
        /\ atStart.cloexec = {256}
        /\ cloexec = {3, 255, 256}
        /\ MaxFD \in openFDs

====
